---- MODULE Spec2Model ----
(***************************************************************************)
(* State machine of src/components/main-app.tsx (component MainApp): the   *)
(* conversation store (messages), the telemetry pulse feed (pulses) and    *)
(* the workflow simulator (workflow), with the three event sources that    *)
(* mutate them: the form's submit handler handleSend, the "Run Fusion      *)
(* Flow" button handler runWorkflow with its delayed async loop, and the   *)
(* 12 s interval callback that recalibrates the head pulse.                *)
(*                                                                         *)
(* Text is a sequence of tokens.  Text typed by the user is a sequence of  *)
(* one-character strings; the literal chunks of the template strings are   *)
(* single tokens, except that a "." and the blank after it are tokens of   *)
(* their own wherever the code looks for them (the regular expression of   *)
(* synthesiseOrchestrator, split(".") and includes("+") in the interval    *)
(* callback).                                                              *)
(*                                                                         *)
(* crypto.randomUUID() is a fresh identifier: the next value of a counter  *)
(* (its decimal text for a pulse, whose other identifiers are texts).      *)
(* new Date() is abstracted to a logical time: the timestamp of a batch is *)
(* the ordinal of its submission, and the time of day that the interval    *)
(* callback prints is the single token "<time>".  The characters outside   *)
(* ASCII are spelt <bullet>, <ldquo>, <rdquo> and <ellipsis>.              *)
(* Math.random() is a value in tenths, 0..9, drawn by the environment.     *)
(***************************************************************************)
EXTENDS Naturals, Integers, Sequences, FiniteSets, TLC

VARIABLES
    messages,           \* useState(INITIAL_MESSAGES): Participant -> Seq(Message)
    pulses,             \* useState(INITIAL_PULSES): Seq(InsightPulse)
    workflow,           \* useState(INITIAL_WORKFLOW): Seq(WorkflowStep)
    isRunningWorkflow,  \* useTransition(): the transition's isPending flag
    timers,             \* pending setTimeout(resolve, 800) of the async loops,
                        \* oldest first; each entry is the index of the step
                        \* its loop is waiting in
    nextId,             \* the next fresh identifier of crypto.randomUUID()
    submits,            \* history: number of submissions that were accepted
    runs,               \* history: number of invocations of runWorkflow
    overlapped,         \* history: the latest runWorkflow was invoked while
                        \* an earlier loop still had a pending timer
    lastOp              \* history: the handler that ran last and, for
                        \* handleSend, whether the text it was given was blank

vars == <<messages, pulses, workflow, isRunningWorkflow, timers, nextId,
          submits, runs, overlapped, lastOp>>

----------------------------------------------------------------------------
(* Bounds of the model. *)

\* accepted submissions explored in a behaviour
MaxSubmits == 1
\* invocations of runWorkflow explored in a behaviour
MaxRuns == 2
\* accepted submissions explored in a behaviour of ChatSpec
MaxChatSubmits == 4
\* accepted submissions explored in a behaviour of FeedSpec
MaxFeedSubmits == 1
\* invocations of runWorkflow explored in a behaviour of FlowSpec
MaxFlowRuns == 3

----------------------------------------------------------------------------
(* Sequences and text. *)

Min(a, b) == IF a < b THEN a ELSE b

\* Array.prototype.slice(0, n)
Take(s, n) == SubSeq(s, 1, Min(n, Len(s)))

\* Array.prototype.slice(-n)
SliceLast(s, n) == SubSeq(s, Len(s) - Min(n, Len(s)) + 1, Len(s))

\* Array.prototype.join: the texts of ss with sep between them
RECURSIVE Join(_, _)
Join(ss, sep) ==
    IF ss = <<>> THEN <<>>
    ELSE IF Len(ss) = 1 THEN Head(ss)
    ELSE Head(ss) \o <<sep>> \o Join(Tail(ss), sep)

\* the white space String.prototype.trim removes
WhiteSpace == {" ", "\t", "\n"}

RECURSIVE TrimStart(_)
TrimStart(s) ==
    IF s # <<>> /\ Head(s) \in WhiteSpace THEN TrimStart(Tail(s)) ELSE s

RECURSIVE TrimEnd(_)
TrimEnd(s) ==
    IF s # <<>> /\ s[Len(s)] \in WhiteSpace
    THEN TrimEnd(SubSeq(s, 1, Len(s) - 1)) ELSE s

\* trim that leaves the text as it is
Trim_Identity(s) == s

\* String.prototype.trim
Trim(s) == TrimEnd(TrimStart(s))

\* a text of white space only (the empty text is one)
IsBlank(s) == \A i \in 1..Len(s) : s[i] \in WhiteSpace

\* String.prototype.includes, for a one-token needle
Includes(s, tok) == \E i \in 1..Len(s) : s[i] = tok

\* String.prototype.split(".")[0]: the text before the first "."
RECURSIVE SplitHead(_)
SplitHead(s) ==
    IF s = <<>> \/ Head(s) = "." THEN <<>>
    ELSE <<Head(s)>> \o SplitHead(Tail(s))

----------------------------------------------------------------------------
(* The static tables. *)

Agents == {"claude", "gemini", "chatgpt"}

Participants == Agents \cup {"user", "orchestrator"}

AGENT_PROFILES ==
    << [id |-> "claude",  name |-> "Claude"],
       [id |-> "gemini",  name |-> "Gemini"],
       [id |-> "chatgpt", name |-> "OpenAI GPT"] >>

INITIAL_MESSAGES ==
    [ user         |-> <<>>,
      orchestrator |-> << [id |-> 1, from |-> "orchestrator",
                           content |-> <<"Tri-agent fusion online", ".",
                                         " Claude handles reflective reasoning, Gemini pulls knowledge graphs, GPT orchestrates tool execution.">>,
                           timestamp |-> 0] >>,
      claude       |-> << [id |-> 2, from |-> "claude",
                           content |-> <<"Hello! I focus on layered reasoning and safety", ".",
                                         " Provide context and constraints, I'll surface structured insights and ethical considerations.">>,
                           timestamp |-> 0] >>,
      gemini       |-> << [id |-> 3, from |-> "gemini",
                           content |-> <<"Gemini node connected", ".",
                                         " I can traverse knowledge bases, recognise patterns, and return evidence-packed reports.">>,
                           timestamp |-> 0] >>,
      chatgpt      |-> << [id |-> 4, from |-> "chatgpt",
                           content |-> <<"Ready to spin up workflows, generate code, and route tool calls", ".",
                                         " Ask for automation and I'll blueprint the execution graph instantly.">>,
                           timestamp |-> 0] >> ]

INITIAL_WORKFLOW ==
    << [id |-> "ingest",   title |-> "Context Intake",
        description |-> "Claude parses objectives, risk surface, and constraints.",
        owner |-> "Claude",
        status |-> "idle", eta |-> "12s"],
       [id |-> "research", title |-> "Signal Expansion",
        description |-> "Gemini scans live data sources, embeddings, and vector memory.",
        owner |-> "Gemini",
        status |-> "idle", eta |-> "21s"],
       [id |-> "plan",     title |-> "Plan Synthesis",
        description |-> "GPT fuses agent output into executable plans & tool calls.",
        owner |-> "GPT",
        status |-> "idle", eta |-> "9s"],
       [id |-> "execute",  title |-> "Autonomous Execution",
        description |-> "Orchestrator dispatches automations & monitors telemetry.",
        owner |-> "Orchestrator",
        status |-> "idle", eta |-> "42s"] >>

INITIAL_PULSES ==
    << [id |-> "market", title |-> <<"Go-to-market narrative ready">>,
        signal |-> <<"Claude structured a 6-part thesis emphasising ethical deployment", ".">>,
        trend |-> "up", delta |-> <<"+", "12% clarity">>,
        source |-> "Claude reflective lens"],
       [id |-> "research", title |-> <<"11 new citations attached">>,
        signal |-> <<"Gemini fetched cross-domain references and knowledge graph evidence", ".">>,
        trend |-> "up", delta |-> <<"2", ".", "4x evidence">>,
        source |-> "Gemini knowledge fabric"],
       [id |-> "automation", title |-> <<"Workflow draft deployed">>,
        signal |-> <<"GPT orchestrated 3 tool invocations and staged deployment scripts", ".">>,
        trend |-> "steady", delta |-> <<"ready to execute">>,
        source |-> "GPT toolchain"] >>

AGENT_SIGNATURES ==
    [ claude  |-> <<"Synthesising moral guardrails",
                    "Highlighting second-order effects",
                    "Layered reasoning with transparent logic",
                    "Stress-testing assumptions thoughtfully">>,
      gemini  |-> <<"Surfacing multimodal evidence",
                    "Cross-referencing live knowledge graphs",
                    "Fusing structured & unstructured data",
                    "Detecting patterns across domains">>,
      chatgpt |-> <<"Drafting execution-ready plans",
                    "Routing tool calls autonomously",
                    "Prototyping code & integrations",
                    "Scoping KPI impact rapidly">> ]

----------------------------------------------------------------------------
(* Math.random(), in tenths. *)

\* the values of Math.random() the environment draws from
MathRandom == {2, 7}

\* randomFrom: array[Math.floor(Math.random() * array.length)], 0-based
randomFrom(array, r) == array[((r * Len(array)) \div 10) + 1]

----------------------------------------------------------------------------
(* Reply synthesis. *)

\* history.filter((m) => m.from === "user")
RECURSIVE UserMessages(_)
UserMessages(history) ==
    IF history = <<>> THEN <<>>
    ELSE (IF Head(history).from = "user" THEN <<Head(history)>> ELSE <<>>)
         \o UserMessages(Tail(history))

\* .slice(-2).map((m) => m.content.trim()).join(" <bullet> ")
LastTwo(history) ==
    LET last == SliceLast(UserMessages(history), 2)
    IN  Join([i \in 1..Len(last) |-> Trim(last[i].content)], " <bullet> ")

agentVoice ==
    [ claude  |-> "I'll articulate the layered reasoning path, ensuring the steps remain grounded, transparent, and ethically scoped.",
      gemini  |-> "I'll weave in structured findings, live telemetry, and highlight where supplementary evidence boosts confidence.",
      chatgpt |-> "I'll anchor the response to executable workstreams, pointing to APIs, SDKs, or automations you can trigger instantly." ]

contextualFragment(lastTwo) ==
    IF Len(lastTwo) > 0
    THEN <<"Context I am carrying forward: ">> \o lastTwo \o <<".">>
    ELSE <<"Awaiting deeper context signals.">>

\* `${signature}. ${contextualFragment} You asked: <ldquo>${prompt.trim()}<rdquo>. ${agentVoice[agent]}`
\* r is the value Math.random() returns to randomFrom
synthesiseAgentReply(agent, prompt, history, r) ==
    LET signature == randomFrom(AGENT_SIGNATURES[agent], r)
    IN  <<signature, ".", " ">> \o contextualFragment(LastTwo(history))
        \o <<" You asked: <ldquo>">> \o Trim(prompt) \o <<"<rdquo>. ", agentVoice[agent]>>

\* the tokens of a reply that hold a "." (the regular expression stops at
\* the first one): the "." token itself, and the literal chunks with one
PeriodTokens ==
    {".", "Awaiting deeper context signals.", "<rdquo>. "}
    \cup {agentVoice[a] : a \in Agents}

\* content.replace(/^[^\.]+\.\s?/, ""): one or more characters that are
\* not ".", the first ".", and one white space after it when there is one
Distil(content) ==
    LET stops == {i \in 1..Len(content) : content[i] \in PeriodTokens}
    IN  IF stops = {} THEN content
        ELSE LET i == CHOOSE k \in stops : \A j \in stops : k <= j
             IN  IF i = 1 \/ content[i] # "." THEN content
                 ELSE IF i < Len(content) /\ content[i + 1] \in WhiteSpace
                      THEN SubSeq(content, i + 2, Len(content))
                      ELSE SubSeq(content, i + 1, Len(content))

\* AGENT_PROFILES.find((profile) => profile.id === agent)?.name ?? agent
Label(agent) ==
    IF \E i \in 1..Len(AGENT_PROFILES) : AGENT_PROFILES[i].id = agent
    THEN AGENT_PROFILES[CHOOSE i \in 1..Len(AGENT_PROFILES) :
                            AGENT_PROFILES[i].id = agent].name
    ELSE agent

\* `<bullet> ${label}: ${distilled}`
Bullet(reply) == <<"<bullet> ", Label(reply.agent), ": ">> \o Distil(reply.content)

\* agentReplies: a sequence of [agent, content]
synthesiseOrchestrator(prompt, agentReplies) ==
    LET fusion == Join([i \in 1..Len(agentReplies) |-> Bullet(agentReplies[i])], "\n")
    IN  <<"Tri-agent synthesis generated.", "\n", "Signal map:", "\n">>
        \o fusion
        \o <<"\n", "Next: choose an automation, or ask the orchestrator to deploy the plan.">>

----------------------------------------------------------------------------
(* handleSend: the form's submit handler. *)

\* the texts typed into the textarea: empty, blank, and two prompts (the
\* second is typed with blanks around it and holds a ".")
Inputs == { <<>>, <<" ", " ">>, <<"a">>, <<" ", "b", ".", " ">> }

\* the values the eight calls of Math.random() in one submission return:
\* rnd[1..3] to the replies filed in the agents' logs, rnd[4..6] to the
\* replies synthesised again for the orchestrator, rnd[7] to the new
\* pulse's trend, rnd[8] to its delta
RandomStreams ==
    { <<2, 2, 2, 7, 7, 7, 2, 2>>,
      <<7, 2, 7, 2, 7, 2, 7, 7>> }

\* the loop with the reply synthesised after the user's message is filed,
\* so that the history it reads ends with the current prompt
RECURSIVE PushAgentTimelines_HistoryAfterPush(_, _, _, _, _)
PushAgentTimelines_HistoryAfterPush(next, i, userMessage, id0, rnd) ==
    IF i > Len(AGENT_PROFILES) THEN next
    ELSE LET agent      == AGENT_PROFILES[i].id
             history    == next[agent] \o <<userMessage>>
             agentReply == [id        |-> id0 + i,
                            from      |-> agent,
                            content   |-> synthesiseAgentReply(
                                              agent, userMessage.content, history, rnd[i]),
                            timestamp |-> userMessage.timestamp]
         IN  PushAgentTimelines_HistoryAfterPush(
                 [next EXCEPT ![agent] = history \o <<agentReply>>],
                 i + 1, userMessage, id0, rnd)

\* the setMessages updater: prev with the batch of one submission appended
RECURSIVE PushAgentTimelines(_, _, _, _, _)
PushAgentTimelines(next, i, userMessage, id0, rnd) ==
    IF i > Len(AGENT_PROFILES) THEN next
    ELSE LET agent      == AGENT_PROFILES[i].id
             history    == next[agent]
             agentReply == [id        |-> id0 + i,
                            from      |-> agent,
                            content   |-> synthesiseAgentReply(
                                              agent, userMessage.content, history, rnd[i]),
                            timestamp |-> userMessage.timestamp]
         IN  PushAgentTimelines(
                 [next EXCEPT ![agent] = history \o <<userMessage, agentReply>>],
                 i + 1, userMessage, id0, rnd)

\* the updater with the user's message filed under the `user` key as well
SendMessages_FilesUserLog(prev, userMessage, id0, rnd) ==
    LET next == PushAgentTimelines(prev, 1, userMessage, id0, rnd)
    IN  [next EXCEPT !.orchestrator = @ \o <<userMessage, userMessage>>,
                     !.user = @ \o <<userMessage>>]

\* the updater with the orchestrator's log started afresh by the batch
SendMessages_RestartsOrchestrator(prev, userMessage, id0, rnd) ==
    LET next == PushAgentTimelines(prev, 1, userMessage, id0, rnd)
    IN  [next EXCEPT !.orchestrator =
                        <<Head(@), userMessage,
                          [id |-> id0 + Len(AGENT_PROFILES) + 1, from |-> "orchestrator",
                           content |-> synthesiseOrchestrator(userMessage.content, <<>>),
                           timestamp |-> userMessage.timestamp]>>]

SendMessages(prev, userMessage, id0, rnd) ==
    LET next == PushAgentTimelines(prev, 1, userMessage, id0, rnd)
        orchestratorReply ==
            [id        |-> id0 + Len(AGENT_PROFILES) + 1,
             from      |-> "orchestrator",
             content   |-> synthesiseOrchestrator(
                               userMessage.content,
                               [i \in 1..Len(AGENT_PROFILES) |->
                                   [agent   |-> AGENT_PROFILES[i].id,
                                    content |-> synthesiseAgentReply(
                                                    AGENT_PROFILES[i].id,
                                                    userMessage.content,
                                                    next[AGENT_PROFILES[i].id],
                                                    rnd[Len(AGENT_PROFILES) + i])]]),
             timestamp |-> userMessage.timestamp]
    IN  [next EXCEPT !.orchestrator = @ \o <<userMessage, orchestratorReply>>]

\* trimmed.slice(0, 24), and the ellipsis after a longer prompt
TitleLimit == 24

\* the cap of the pulse feed
FeedCap == 6

NewPulse(id, trimmed, rTrend, rDelta) ==
    [id     |-> id,
     title  |-> <<"Signal unlocked by <ldquo>">> \o Take(trimmed, TitleLimit)
                \o (IF Len(trimmed) > TitleLimit THEN <<"<ellipsis>">> ELSE <<>>),
     signal |-> <<"Agents aligned on actionable path, orchestrator ready to deploy", ".">>,
     trend  |-> IF rTrend > 4 THEN "up" ELSE "steady",
     delta  |-> IF rDelta > 6 THEN <<"+", "18% readiness">> ELSE <<"+", "9% readiness">>,
     source |-> "Fusion engine"]

\* the updater without its slice(0, 6)
PushPulse_NoCap(prev, newPulse) == <<newPulse>> \o prev

\* the updater with the new pulse pushed at the end
PushPulse_AtEnd(prev, newPulse) == Take(prev \o <<newPulse>>, FeedCap)

\* the setPulses updater of handleSend: [newPulse, ...prev].slice(0, 6)
PushPulse(prev, newPulse) == Take(<<newPulse>> \o prev, FeedCap)

handleSend(raw, rnd) ==
    LET trimmed == Trim(raw)
    IN  /\ lastOp' = [op |-> "send", blank |-> IsBlank(raw)]
        /\ IF trimmed = <<>>
           THEN UNCHANGED <<messages, pulses, nextId, submits>>
           ELSE /\ LET userMessage == [id        |-> nextId,
                                       from      |-> "user",
                                       content   |-> trimmed,
                                       timestamp |-> submits + 1]
                   IN  messages' = SendMessages(messages, userMessage, nextId, rnd)
                /\ pulses' = PushPulse(pulses,
                                 NewPulse(ToString(nextId + Len(AGENT_PROFILES) + 2),
                                          trimmed, rnd[7], rnd[8]))
                /\ nextId' = nextId + Len(AGENT_PROFILES) + 3
                /\ submits' = submits + 1
        /\ UNCHANGED <<workflow, isRunningWorkflow, timers, runs, overlapped>>

----------------------------------------------------------------------------
(* The interval callback of useEffect, every 12 s. *)

\* the updater with the head's trend left as it is
Recalibrate_KeepsTrend(prev) ==
    IF Len(prev) = 0 THEN prev
    ELSE LET first   == Head(prev)
             updated == [first EXCEPT
                            !.delta  = IF Includes(first.delta, "+")
                                       THEN first.delta
                                       ELSE <<"+", "5% momentum">>,
                            !.signal = SplitHead(first.signal)
                                       \o <<".", " Fusion loop recalibrated ", "<time>", ".">>]
         IN  <<updated>> \o Take(Tail(prev), 5)

\* the updater that keeps one pulse fewer: rest.slice(0, 4)
Recalibrate_ShortSlice(prev) ==
    IF Len(prev) = 0 THEN prev
    ELSE LET first   == Head(prev)
             updated == [first EXCEPT
                            !.delta  = IF Includes(first.delta, "+")
                                       THEN first.delta
                                       ELSE <<"+", "5% momentum">>,
                            !.trend  = IF first.trend = "down" THEN "steady" ELSE "up",
                            !.signal = SplitHead(first.signal)
                                       \o <<".", " Fusion loop recalibrated ", "<time>", ".">>]
         IN  <<updated>> \o Take(Tail(prev), 4)

\* the updater that forgets the pulse it recalibrated: rest.slice(0, 5)
Recalibrate_DropsFirst(prev) ==
    IF Len(prev) = 0 THEN prev
    ELSE Take(Tail(prev), 5)

\* the setPulses updater of the interval
Recalibrate(prev) ==
    IF Len(prev) = 0 THEN prev
    ELSE LET first   == Head(prev)
             rest    == Tail(prev)
             updated == [first EXCEPT
                            !.delta  = IF Includes(first.delta, "+")
                                       THEN first.delta
                                       ELSE <<"+", "5% momentum">>,
                            !.trend  = IF first.trend = "down" THEN "steady" ELSE "up",
                            !.signal = SplitHead(first.signal)
                                       \o <<".", " Fusion loop recalibrated ", "<time>", ".">>]
         IN  <<updated>> \o Take(rest, 5)

Tick ==
    /\ pulses' = Recalibrate(pulses)
    /\ lastOp' = [op |-> "tick", blank |-> FALSE]
    /\ UNCHANGED <<messages, workflow, isRunningWorkflow, timers, nextId,
                   submits, runs, overlapped>>

----------------------------------------------------------------------------
(* runWorkflow and its async loop. *)

\* the reset that leaves every step as it is
ResetAll_Forgotten(prev) == prev

\* prev.map((step) => ({ ...step, status: "idle" }))
ResetAll(prev) == [i \in 1..Len(prev) |-> [prev[i] EXCEPT !.status = "idle"]]

\* prev.map((item) => item.id === step.id ? { ...item, status } : item)
SetStatus(prev, stepId, status) ==
    [i \in 1..Len(prev) |->
        IF prev[i].id = stepId THEN [prev[i] EXCEPT !.status = status] ELSE prev[i]]

\* The click on "Run Fusion Flow" (disabled while the transition is
\* pending).  startTransition marks the transition pending and runs the
\* callback: the reset and the first pass of the loop up to its await are
\* queued as transition updates, and the first timer is set.
runWorkflow ==
    /\ ~isRunningWorkflow
    /\ isRunningWorkflow' = TRUE
    /\ timers' = Append(timers, 1)
    /\ runs' = runs + 1
    /\ overlapped' = (timers # <<>>)
    /\ lastOp' = [op |-> "run", blank |-> FALSE]
    /\ UNCHANGED <<messages, pulses, workflow, nextId, submits>>

\* React renders the transition: the queued updaters are applied in order
\* (every step idle, then the first step running) and isPending falls.
CommitTransition ==
    /\ isRunningWorkflow
    /\ workflow' = SetStatus(ResetAll(workflow), INITIAL_WORKFLOW[1].id, "running")
    /\ isRunningWorkflow' = FALSE
    /\ lastOp' = [op |-> "commit", blank |-> FALSE]
    /\ UNCHANGED <<messages, pulses, timers, nextId, submits, runs, overlapped>>

\* the loop that returns after its last wait without marking the last step
TimerFire_LastStepLeftRunning ==
    /\ timers # <<>>
    /\ ~isRunningWorkflow
    /\ LET k == Head(timers)
           done == SetStatus(workflow, INITIAL_WORKFLOW[k].id, "done")
       IN  IF k < Len(INITIAL_WORKFLOW)
           THEN /\ workflow' = SetStatus(done, INITIAL_WORKFLOW[k + 1].id, "running")
                /\ timers' = Append(Tail(timers), k + 1)
           ELSE /\ workflow' = workflow
                /\ timers' = Tail(timers)
    /\ lastOp' = [op |-> "timer", blank |-> FALSE]
    /\ UNCHANGED <<messages, pulses, isRunningWorkflow, nextId, submits, runs,
                   overlapped>>

\* The oldest pending timer fires (timers of one delay fire in the order
\* they were set) and its loop resumes: the step it waited in is done and,
\* unless that was the last step, the next one is running and a new timer
\* is set.  The transition render takes far less than the 800 ms delay, so
\* no timer fires while a transition is pending.
TimerFire ==
    /\ timers # <<>>
    /\ ~isRunningWorkflow
    /\ LET k == Head(timers)
           done == SetStatus(workflow, INITIAL_WORKFLOW[k].id, "done")
       IN  IF k < Len(INITIAL_WORKFLOW)
           THEN /\ workflow' = SetStatus(done, INITIAL_WORKFLOW[k + 1].id, "running")
                /\ timers' = Append(Tail(timers), k + 1)
           ELSE /\ workflow' = done
                /\ timers' = Tail(timers)
    /\ lastOp' = [op |-> "timer", blank |-> FALSE]
    /\ UNCHANGED <<messages, pulses, isRunningWorkflow, nextId, submits, runs,
                   overlapped>>

----------------------------------------------------------------------------
(* The derived value. *)

\* workflow.filter((step) => step.status === "done").length
DoneSteps(wf) == Cardinality({i \in 1..Len(wf) : wf[i].status = "done"})

\* workflow.filter((step) => step.status !== "idle").length
NotIdleSteps(wf) == Cardinality({i \in 1..Len(wf) : wf[i].status # "idle"})

\* the score without Math.min
intelligenceScore_NoClamp(p, wf) ==
    LET totalSignals == Len(p) + DoneSteps(wf)
        progress     == NotIdleSteps(wf)
    IN  42 + totalSignals * 9 + progress * 7

intelligenceScore(p, wf) ==
    LET totalSignals == Len(p) + DoneSteps(wf)
        progress     == NotIdleSteps(wf)
    IN  Min(100, 42 + totalSignals * 9 + progress * 7)

----------------------------------------------------------------------------
(* The program. *)

Init ==
    /\ messages = INITIAL_MESSAGES
    /\ pulses = INITIAL_PULSES
    /\ workflow = INITIAL_WORKFLOW
    /\ isRunningWorkflow = FALSE
    /\ timers = <<>>
    /\ nextId = 5
    /\ submits = 0
    /\ runs = 0
    /\ overlapped = FALSE
    /\ lastOp = [op |-> "init", blank |-> FALSE]

\* a submission of the explored behaviours: at most max accepted ones
BoundedSend(raw, rnd, max) ==
    /\ (Trim(raw) # <<>> => submits < max)
    /\ handleSend(raw, rnd)

\* a click on the run button: at most max in an explored behaviour
BoundedRun(max) ==
    /\ runs < max
    /\ runWorkflow

Send == \E raw \in Inputs, rnd \in RandomStreams : BoundedSend(raw, rnd, MaxSubmits)

Run == BoundedRun(MaxRuns)

Next ==
    \/ Send
    \/ Tick
    \/ Run
    \/ CommitTransition
    \/ TimerFire

Spec == Init /\ [][Next]_vars

(* The conversation store and the pulse feed alone: no workflow handler   *)
(* reads or writes them, so their behaviours are those of the submissions *)
(* and the interval, explored here over more submissions.                 *)
ChatSend ==
    \E raw \in Inputs, rnd \in RandomStreams : BoundedSend(raw, rnd, MaxChatSubmits)

ChatNext ==
    \/ ChatSend
    \/ Tick

ChatSpec == Init /\ [][ChatNext]_vars

(* The updaters of the feed as functions of any feed an InsightPulse[]    *)
(* of at most FeedCap entries can be: the initial feed and workflow are   *)
(* drawn from samples that hold every trend at the head, deltas with and  *)
(* without a "+", the empty feed and the full one.                        *)
Trends == {"up", "down", "steady"}

SampleHeads ==
    { [id |-> "head", title |-> <<"Sample head">>, signal |-> sg, trend |-> tr,
       delta |-> d, source |-> "Sample source"] :
        sg \in { <<"Sample signal", ".">>,
                 <<"Sample signal", ".", " Fusion loop recalibrated ", "<time>", ".">> },
        tr \in Trends,
        d  \in { <<"+", "1% sample">>, <<"flat">> } }

SampleRest ==
    << [id |-> "r1", title |-> <<"Sample 1">>, signal |-> <<"One", ".">>,
        trend |-> "down", delta |-> <<"-", "3% sample">>, source |-> "Sample source"],
       [id |-> "r2", title |-> <<"Sample 2">>, signal |-> <<"Two", ".">>,
        trend |-> "up", delta |-> <<"+", "2% sample">>, source |-> "Sample source"],
       [id |-> "r3", title |-> <<"Sample 3">>, signal |-> <<"Three", ".">>,
        trend |-> "steady", delta |-> <<"flat">>, source |-> "Sample source"],
       [id |-> "r4", title |-> <<"Sample 4">>, signal |-> <<"Four", ".">>,
        trend |-> "down", delta |-> <<"flat">>, source |-> "Sample source"],
       [id |-> "r5", title |-> <<"Sample 5">>, signal |-> <<"Five", ".">>,
        trend |-> "up", delta |-> <<"+", "4% sample">>, source |-> "Sample source"] >>

SampleFeeds ==
    {<<>>, INITIAL_PULSES}
    \cup { <<h>> \o Take(SampleRest, n) : h \in SampleHeads, n \in 0..(FeedCap - 1) }

WorkflowWith(st) ==
    [i \in 1..Len(INITIAL_WORKFLOW) |-> [INITIAL_WORKFLOW[i] EXCEPT !.status = st[i]]]

SampleWorkflows ==
    { WorkflowWith(st) : st \in { <<"idle", "idle", "idle", "idle">>,
                                  <<"done", "running", "idle", "idle">>,
                                  <<"running", "idle", "done", "running">>,
                                  <<"done", "done", "done", "done">> } }

FeedInit ==
    /\ messages = INITIAL_MESSAGES
    /\ pulses \in SampleFeeds
    /\ workflow \in SampleWorkflows
    /\ isRunningWorkflow = FALSE
    /\ timers = <<>>
    /\ nextId = 5
    /\ submits = 0
    /\ runs = 0
    /\ overlapped = FALSE
    /\ lastOp = [op |-> "init", blank |-> FALSE]

FeedSend ==
    \E raw \in Inputs, rnd \in RandomStreams : BoundedSend(raw, rnd, MaxFeedSubmits)

FeedNext ==
    \/ FeedSend
    \/ Tick

FeedSpec == FeedInit /\ [][FeedNext]_vars

(* The workflow simulator alone, with the scheduling the event loop       *)
(* guarantees: a pending transition is rendered and a set timer fires.    *)
FlowRun == BoundedRun(MaxFlowRuns)

FlowNext ==
    \/ FlowRun
    \/ CommitTransition
    \/ TimerFire

FlowSpec ==
    /\ Init
    /\ [][FlowNext]_vars
    /\ WF_vars(CommitTransition)
    /\ WF_vars(TimerFire)

----------------------------------------------------------------------------
(* Properties. *)

\* the logs a submission files its batch under
PopulatedLogs == Agents \cup {"orchestrator"}

\* the step just taken was handleSend on a text that is not blank
Accepted == lastOp.op = "send" /\ ~lastOp.blank

\* the step just taken was handleSend on an empty or blank text
Rejected == lastOp.op = "send" /\ lastOp.blank

Ticked == lastOp.op = "tick"

\* C1: a submission of a prompt that is not blank appends to each agent's
\* log and to the orchestrator's log exactly two messages, the user's
\* message and then that participant's reply, and nothing to the `user`
\* log, which is empty in every reachable state.
C1_SubmitAppendsPairs ==
    /\ [][Accepted' =>
            /\ \A a \in PopulatedLogs :
                  LET n == Len(messages[a])
                  IN  /\ Len(messages'[a]) = n + 2
                      /\ SubSeq(messages'[a], 1, n) = messages[a]
                      /\ messages'[a][n + 1].from = "user"
                      /\ messages'[a][n + 1].content # <<>>
                      /\ messages'[a][n + 2].from = a
            /\ Len(messages'.user) = Len(messages.user)]_vars
    /\ [](messages.user = <<>>)

\* C1 witness: a second submission has been accepted
C1_Witness == Accepted /\ submits = 2 /\ Len(messages.claude) = 5

\* C2: a submission of an empty or blank text changes nothing: the logs,
\* the feed, the workflow and its pending timers are what they were.
C2_BlankSubmitIsNoOp ==
    [][Rejected' => UNCHANGED <<messages, pulses, workflow, isRunningWorkflow,
                                timers, nextId, submits>>]_vars

\* C2 witness: a blank text was submitted after an accepted one, while a
\* workflow loop was waiting
C2_Witness == Rejected /\ submits = 1 /\ timers # <<>>

\* C3: the feed never holds more than 6 pulses.
C3_FeedAtMostSix == Len(pulses) <= 6

\* C3 witness: a submission was accepted on a feed that was full
C3_Witness == Accepted /\ submits >= 4 /\ Len(pulses) = 6

\* C4: right after a tick on a feed that is not empty the head pulse's
\* trend is not `down`, whatever it was before.
C4_HeadNotDownAfterTick ==
    [][(Ticked' /\ pulses # <<>>) => pulses'[1].trend # "down"]_vars

\* C4 witness: a tick has run on a head whose trend was `down` (the only
\* trend the tick turns into `steady`)
C4_Witness == Ticked /\ pulses # <<>> /\ pulses[1].trend = "steady"

\* the statuses of the workflow's steps, in order
Statuses == [i \in 1..Len(workflow) |-> workflow[i].status]

StepsWith(status) == {i \in 1..Len(workflow) : workflow[i].status = status}

AllDone == \A i \in 1..Len(workflow) : workflow[i].status = "done"

\* the loop of a run that nothing overlaps waits in step k: the steps
\* before k are done, k is running and the steps after k are idle
Visiting(k) ==
    \A i \in 1..Len(workflow) :
        workflow[i].status = IF i < k THEN "done" ELSE IF i = k THEN "running" ELSE "idle"

\* the workflow lists the four steps of INITIAL_WORKFLOW in their order,
\* and differs from it in the statuses only
SameSteps(wf) ==
    /\ Len(wf) = Len(INITIAL_WORKFLOW)
    /\ \A i \in 1..Len(wf) : [wf[i] EXCEPT !.status = "idle"] = INITIAL_WORKFLOW[i]

\* C5: in a run that no other run overlaps, the transition's render leaves
\* the first step running and the others idle (the reset, then the first
\* pass of the loop); every timer turns the running step k to done and,
\* behind it, the idle step k + 1 to running, in the order ingest,
\* research, plan, execute; while the loop waits in step k the steps before
\* it are done and those after it idle; when the loop has ended all four
\* steps are done; and with the timers firing that state is reached.
C5_SingleRunInOrder ==
    /\ [](~overlapped /\ ~isRunningWorkflow =>
            /\ SameSteps(workflow)
            /\ Len(timers) <= 1
            /\ \A k \in 1..Len(workflow) : timers = <<k>> => Visiting(k)
            /\ (timers = <<>> /\ runs > 0) => AllDone)
    /\ [][~overlapped' =>
            /\ lastOp'.op = "commit" =>
                  Statuses' = <<"running", "idle", "idle", "idle">>
            /\ lastOp'.op = "timer" =>
                  \E k \in 1..Len(workflow) :
                      /\ workflow[k].status = "running"
                      /\ workflow'[k].status = "done"
                      /\ k < Len(workflow) =>
                            /\ workflow[k + 1].status = "idle"
                            /\ workflow'[k + 1].status = "running"
                      /\ \A i \in 1..Len(workflow) :
                            i \notin {k, k + 1} => workflow'[i] = workflow[i]]_vars
    /\ [](runs > 0 /\ ~overlapped => <>(overlapped \/ (AllDone /\ timers = <<>>)))

\* C5 witness: a second run, started after the first had ended, has ended
C5_Witness ==
    /\ runs = 2
    /\ ~overlapped
    /\ lastOp.op = "timer"
    /\ timers = <<>>
    /\ AllDone

\* the claimed score: 42, 9 a pulse and 7 a step that is not idle
ClaimedScore(p, wf) ==
    LET pulseCount      == Len(p)
        activeStepCount == Cardinality({i \in 1..Len(wf) : wf[i].status # "idle"})
    IN  Min(100, 42 + 9 * pulseCount + 7 * activeStepCount)

\* the score as amended: a done step counts 9 more, as a pulse does
AmendedScore(p, wf) ==
    LET pulseCount      == Len(p)
        doneStepCount   == Cardinality({i \in 1..Len(wf) : wf[i].status = "done"})
        activeStepCount == Cardinality({i \in 1..Len(wf) : wf[i].status # "idle"})
    IN  Min(100, 42 + 9 * (pulseCount + doneStepCount) + 7 * activeStepCount)

\* every feed length up to the cap with every assignment of statuses
ScoreInputs ==
    { <<Take(SampleRest \o SampleRest, n), WorkflowWith(st)>> :
        n \in 0..FeedCap, st \in [1..Len(INITIAL_WORKFLOW) -> {"idle", "running", "done"}] }

\* the score of every input of ScoreInputs, and of the empty feed with
\* every step idle
ScoreOnAllInputs ==
    /\ \A in \in ScoreInputs :
          /\ intelligenceScore(in[1], in[2]) = AmendedScore(in[1], in[2])
          /\ intelligenceScore(in[1], in[2]) \in 0..100
    /\ intelligenceScore(<<>>, INITIAL_WORKFLOW) = 42

\* C6 as claimed: the score is min(100, 42 + 9 * pulseCount + 7 * activeStepCount).
C6_ScoreAsClaimed == intelligenceScore(pulses, workflow) = ClaimedScore(pulses, workflow)

\* C6 as amended: the score is min(100, 42 + 9 * (pulseCount +
\* doneStepCount) + 7 * activeStepCount), in the reachable states and for
\* every feed of up to 6 pulses with every assignment of statuses; it is 42
\* for the empty feed with every step idle, and lies in 0..100.
C6_Score ==
    /\ intelligenceScore(pulses, workflow) = AmendedScore(pulses, workflow)
    /\ intelligenceScore(pulses, workflow) \in 0..100
    /\ ScoreOnAllInputs

\* C6 witness: a step is done and the score is below the clamp, 9 above
\* the claimed one
C6_Witness ==
    /\ StepsWith("done") # {}
    /\ intelligenceScore(pulses, workflow) < 100
    /\ intelligenceScore(pulses, workflow) = ClaimedScore(pulses, workflow) + 9

\* C7: at most one step is running in every reachable state.
C7_AtMostOneRunning == Cardinality(StepsWith("running")) <= 1

\* C8: only the statuses change, and but for the reset of a run's start
\* (after which the first step is set running) a status changes from idle
\* to running or from running to done only.
C8_LinearSteps ==
    [][/\ SameSteps(workflow')
       /\ \A i \in 1..Len(workflow) :
             \/ workflow'[i].status = workflow[i].status
             \/ workflow[i].status = "idle" /\ workflow'[i].status = "running"
             \/ workflow[i].status = "running" /\ workflow'[i].status = "done"
             \/ lastOp'.op = "commit" /\ workflow'[i].status = "idle"
             \/ lastOp'.op = "commit" /\ i = 1 /\ workflow'[i].status = "running"]_vars


PulseIds(feed) == {feed[i].id : i \in 1..Len(feed)}

\* C9: a tick changes at most the delta, the trend and the signal of the
\* head pulse: the feed keeps its length, every pulse behind the head is
\* what it was, the head keeps its id, title and source; afterwards the
\* head's delta holds a "+", and is the old delta when that held one; the
\* empty feed stays empty; the logs and the workflow are what they were.
C9_TickFrame ==
    [][Ticked' =>
          /\ Len(pulses') = Len(pulses)
          /\ \A i \in 2..Len(pulses) : pulses'[i] = pulses[i]
          /\ pulses # <<>> =>
                /\ pulses'[1] = [pulses[1] EXCEPT !.delta  = pulses'[1].delta,
                                                  !.trend  = pulses'[1].trend,
                                                  !.signal = pulses'[1].signal]
                /\ Includes(pulses'[1].delta, "+")
                /\ Includes(pulses[1].delta, "+") => pulses'[1].delta = pulses[1].delta
          /\ UNCHANGED <<messages, workflow>>]_vars

\* C9 witness: a tick has run on a full feed whose head's delta held no "+"
C9_Witness ==
    /\ Ticked
    /\ Len(pulses) = FeedCap
    /\ pulses[1].delta = <<"+", "5% momentum">>
    /\ pulses[FeedCap].id = "r5"

\* C10: after an accepted submission the head of the feed is a pulse that
\* was not in it, with trend up or steady; behind it come the pulses that
\* were in the feed, in their order, all of them when the feed held fewer
\* than 6 and all but the last when it held 6.
C10_NewPulseAtHead ==
    [][Accepted' =>
          /\ pulses'[1].id \notin PulseIds(pulses)
          /\ pulses'[1].trend \in {"up", "steady"}
          /\ Tail(pulses') = IF Len(pulses) = 6
                             THEN SubSeq(pulses, 1, 5)
                             ELSE pulses]_vars

\* C10 witness: the fourth submission has evicted the oldest pulse of the
\* initial feed and nothing else
C10_Witness ==
    /\ Accepted
    /\ submits = 4
    /\ Len(pulses) = 6
    /\ pulses[5].id = "market"
    /\ pulses[6].id = "research"


\* s is the beginning of t
IsPrefix(s, t) == Len(s) <= Len(t) /\ SubSeq(t, 1, Len(s)) = s

\* C11: every log is append-only (what a log held is the beginning of what
\* it holds after any step), and the three agents' logs and the
\* orchestrator's log all hold 1 + 2n messages after n accepted submissions.
C11_AppendOnlyLogs ==
    /\ [][\A p \in Participants : IsPrefix(messages[p], messages'[p])]_vars
    /\ [](\A a \in PopulatedLogs : Len(messages[a]) = 1 + 2 * submits)

\* C11 witness: three submissions have been accepted and a tick has run
C11_Witness ==
    /\ submits = 3
    /\ Ticked
    /\ \A a \in PopulatedLogs : Len(messages[a]) = 7


\* the prompt of the k-th accepted submission as filed in participant p's
\* log, and the reply filed after it
PromptOf(p, k) == messages[p][2 * k].content

ReplyOf(p, k) == messages[p][2 * k + 1].content

\* t is raw without the white space at its ends
IsTrimOf(t, raw) ==
    /\ t = <<>> \/ (t[1] \notin WhiteSpace /\ t[Len(t)] \notin WhiteSpace)
    /\ \E i \in 0..Len(raw) : \E j \in i..Len(raw) :
          /\ t = SubSeq(raw, i + 1, j)
          /\ IsBlank(SubSeq(raw, 1, i))
          /\ IsBlank(SubSeq(raw, j + 1, Len(raw)))

\* the context the k-th reply is to carry: nothing for the first, the one
\* earlier prompt for the second, the two latest earlier prompts in
\* chronological order afterwards
ExpectedContext(a, k) ==
    IF k = 1 THEN <<"Awaiting deeper context signals.">>
    ELSE <<"Context I am carrying forward: ">>
         \o (IF k = 2 THEN PromptOf(a, 1)
             ELSE PromptOf(a, k - 2) \o <<" <bullet> ">> \o PromptOf(a, k - 1))
         \o <<".">>

\* what follows the phrase and its ". " in the k-th reply of agent a
ExpectedAfterPhrase(a, k) ==
    ExpectedContext(a, k) \o <<" You asked: <ldquo>">> \o PromptOf(a, k)
    \o <<"<rdquo>. ", agentVoice[a]>>

Phrases(a) == {AGENT_SIGNATURES[a][i] : i \in 1..Len(AGENT_SIGNATURES[a])}

\* C12: the reply filed in an agent's log for the k-th accepted submission
\* is one of the agent's phrases, then the context made of the prompts of
\* submissions k - 2 and k - 1 in that order (of submission 1 alone when
\* k = 2, the `awaiting context` fragment when k = 1) and never of the
\* k-th prompt, then the k-th prompt, trimmed, verbatim.
C12_ReplyContext ==
    \A a \in Agents : \A k \in 1..submits :
        /\ messages[a][2 * k].from = "user"
        /\ PromptOf(a, k) # <<>>
        /\ \E raw \in Inputs : IsTrimOf(PromptOf(a, k), raw)
        /\ messages[a][2 * k + 1].from = a
        /\ \E phrase \in Phrases(a) :
              ReplyOf(a, k) = <<phrase, ".", " ">> \o ExpectedAfterPhrase(a, k)

\* C12 witness: the fourth reply carries the second and third prompts,
\* which differ, and not the first
C12_Witness ==
    /\ submits = 4
    /\ PromptOf("gemini", 1) = <<"a">>
    /\ PromptOf("gemini", 2) = <<"b", ".">>
    /\ PromptOf("gemini", 3) = <<"a">>
    /\ PromptOf("gemini", 4) = <<"b", ".">>


\* a reply without its first sentence: the phrase, its "." and the blank
StripFirstSentence(content) == SubSeq(content, 4, Len(content))

\* the summary whose bullet for each agent is the reply filed in that
\* agent's log for the k-th submission, without its first sentence
SummaryOfLoggedReplies(k) ==
    <<"Tri-agent synthesis generated.", "\n", "Signal map:", "\n">>
    \o Join([i \in 1..Len(AGENT_PROFILES) |->
                <<"<bullet> ", AGENT_PROFILES[i].name, ": ">>
                \o StripFirstSentence(ReplyOf(AGENT_PROFILES[i].id, k))], "\n")
    \o <<"\n", "Next: choose an automation, or ask the orchestrator to deploy the plan.">>

\* C13: for every accepted submission, each agent's bullet in the
\* orchestrator's summary is the reply filed in that agent's log for the
\* same submission with its first sentence stripped.
C13_BulletsMatchLoggedReplies ==
    \A k \in 1..submits : ReplyOf("orchestrator", k) = SummaryOfLoggedReplies(k)

----------------------------------------------------------------------------
\* C14: once the workflow has been run, however many times and however the
\* runs overlap the pending timers of earlier runs, fair timers bring the
\* workflow to the state where all four steps are done and it stays there
\* when no further run is started; and whenever every started run has
\* finished its loop, no step is idle or running.
LoopsFinished == runs > 0 /\ timers = <<>> /\ ~isRunningWorkflow

C14_EventuallyAllDone ==
    /\ [](runs > 0 => <>[](AllDone /\ LoopsFinished))
    /\ [](LoopsFinished => AllDone)

\* three runs, the last one started while an earlier loop was waiting, have
\* all finished
C14_Witness ==
    /\ runs = 3
    /\ overlapped
    /\ LoopsFinished
    /\ AllDone

----------------------------------------------------------------------------
\* C15: from the initial feed of three pulses the feed never shrinks and
\* always holds between three and six pulses (so it is never empty and the
\* tick never takes its empty-feed branch), no pulse in it has trend
\* "down", and the intelligence score is at least 69, whatever the statuses
\* of the workflow steps.
InitialFeedSize == Len(INITIAL_PULSES)

FeedInBounds ==
    /\ InitialFeedSize = 3
    /\ InitialFeedSize <= Len(pulses)
    /\ Len(pulses) <= 6
    /\ pulses # <<>>
    /\ \A i \in 1..Len(pulses) : pulses[i].trend # "down"
    /\ intelligenceScore(pulses, workflow) >= 69
    /\ \A wf \in SampleWorkflows : intelligenceScore(pulses, wf) >= 69

C15_FeedNeverShrinks ==
    /\ []FeedInBounds
    /\ [][Len(pulses') >= Len(pulses)]_vars

\* the feed is full, the last submission pushed a pulse out of it, and the
\* tick has recalibrated the full feed
C15_Witness ==
    /\ Len(pulses) = 6
    /\ submits = 4
    /\ lastOp.op = "tick"
    /\ PulseIds(pulses) \cap PulseIds(INITIAL_PULSES) # PulseIds(INITIAL_PULSES)

====
